---- MODULE Spec2Model ----
(***************************************************************************)
(* A model of pyloudnorm: the loudness Meter (weighting filter bank, block *)
(* energies, two-pass gating), its biquad IIRfilter, and the normalizer.   *)
(*                                                                         *)
(* Numbers.  Floating-point quantities are modelled in fixed point:        *)
(*   amplitudes, filter coefficients, gains   in 1/Scale    (1.0 = 10000)  *)
(*   energies                                 in 1/Scale^2                 *)
(*   loudness values, decibel arguments       in 1/1000 dB                 *)
(*   times                                    in milliseconds              *)
(*   Q factors                                in 1/Scale                   *)
(*   filter gains G                           in 1/10 dB                   *)
(* A float that may be NaN or infinite is a record [k, v] with             *)
(* k \in {"num", "nan", "ninf", "pinf"}; v is meaningful only for "num".   *)
(* Library functions that have no closed form over the integers (cos, sin, *)
(* sqrt, 10^x, log10) are tabulated at the arguments the model uses.       *)
(***************************************************************************)
EXTENDS Integers, Sequences, FiniteSets, TLC

Scale == 10 * 1000

\* ------------------------------------------------------------------------
\* Extended floating-point values
\* ------------------------------------------------------------------------
Num(v) == [v |-> v, k |-> "num"]
NaN    == [v |-> 0, k |-> "nan"]
NegInf == [v |-> 0, k |-> "ninf"]
PosInf == [v |-> 0, k |-> "pinf"]

IsNum(x) == x.k = "num"
IsNaN(x) == x.k = "nan"

\* IEEE comparison x >= y: false as soon as one side is NaN.
FGe(x, y) ==
  CASE IsNaN(x) \/ IsNaN(y)          -> FALSE
    [] x.k = "pinf" \/ y.k = "ninf"  -> TRUE
    [] x.k = "ninf" \/ y.k = "pinf"  -> FALSE
    [] OTHER                         -> x.v >= y.v

\* IEEE comparison x > y.
FGt(x, y) ==
  CASE IsNaN(x) \/ IsNaN(y)          -> FALSE
    [] x.k = y.k /\ x.k # "num"      -> FALSE
    [] x.k = "pinf" \/ y.k = "ninf"  -> TRUE
    [] x.k = "ninf" \/ y.k = "pinf"  -> FALSE
    [] OTHER                         -> x.v > y.v

\* x + c for a finite constant c.
FAddConst(x, c) == IF IsNum(x) THEN Num(x.v + c) ELSE x

Abs(n) == IF n < 0 THEN -n ELSE n

\* A sequence given as a function on 1..n, with its elements computed once.
Tuple(f) == f \o << >>

\* Fixed-point product and quotient of two numbers in 1/Scale.
Mul(x, y) == (x * y) \div Scale
Div(x, y) == (x * Scale) \div y

\* ------------------------------------------------------------------------
\* Library functions, tabulated
\* ------------------------------------------------------------------------

\* np.cos(2 pi fc / rate) and np.sin(2 pi fc / rate), in 1/Scale.
CosW0(fc, rate) ==
  CASE fc = 1500 /\ rate = 31 -> -7588
    [] fc = 38   /\ rate = 31 -> 1514
    [] fc = 130  /\ rate = 31 -> 3473
    [] fc = 500  /\ rate = 31 -> 6890
    [] fc = 149  /\ rate = 31 -> 3473
    [] fc = 130  /\ rate = 62 -> 8208
    [] fc = 500  /\ rate = 62 -> 9190

SinW0(fc, rate) ==
  CASE fc = 1500 /\ rate = 31 -> 6514
    [] fc = 38   /\ rate = 31 -> 9885
    [] fc = 130  /\ rate = 31 -> 9378
    [] fc = 500  /\ rate = 31 -> 7248
    [] fc = 149  /\ rate = 31 -> -9378
    [] fc = 130  /\ rate = 62 -> 5713
    [] fc = 500  /\ rate = 62 -> 3944

\* 10 ** (G / 40.0) for G in 1/10 dB, in 1/Scale.
PowA(G) ==
  CASE G = 40 -> 12589
    [] G = 0  -> 10000
    [] G = 50 -> 13335
    [] G = 34 -> 12162

\* np.sqrt(A) for the values PowA takes, in 1/Scale.
SqrtA(A) ==
  CASE A = 12589 -> 11220
    [] A = 10000 -> 10000
    [] A = 13335 -> 11548
    [] A = 12162 -> 11028

\* 1/np.sqrt(2), in 1/Scale.
InvSqrt2 == 7071

\* Pow10Tab[k+1] = ceil(1000 * 10^(k/100)), k = 0..99: the mantissas at which
\* 10*log10 crosses a multiple of 0.1 dB.
Pow10Tab ==
  << 1000, 1024, 1048, 1072, 1097, 1123, 1149, 1175, 1203, 1231,
     1259, 1289, 1319, 1349, 1381, 1413, 1446, 1480, 1514, 1549,
     1585, 1622, 1660, 1699, 1738, 1779, 1820, 1863, 1906, 1950,
     1996, 2042, 2090, 2138, 2188, 2239, 2291, 2345, 2399, 2455,
     2512, 2571, 2631, 2692, 2755, 2819, 2885, 2952, 3020, 3091,
     3163, 3236, 3312, 3389, 3468, 3549, 3631, 3716, 3802, 3891,
     3982, 4074, 4169, 4266, 4366, 4467, 4571, 4678, 4787, 4898,
     5012, 5129, 5249, 5371, 5496, 5624, 5755, 5889, 6026, 6166,
     6310, 6457, 6607, 6761, 6919, 7080, 7245, 7414, 7586, 7763,
     7944, 8129, 8318, 8512, 8710, 8913, 9121, 9333, 9550, 9773 >>

\* The decade of n >= 1 and its mantissa scaled into 1000..9999.
RECURSIVE Decade(_)
Decade(n) == IF n < 10 THEN 0 ELSE 1 + Decade(n \div 10)

RECURSIVE Pow10Int(_)
Pow10Int(d) == IF d = 0 THEN 1 ELSE 10 * Pow10Int(d - 1)

Mantissa(n) ==
  LET d == Decade(n)
  IN  IF d <= 3 THEN n * Pow10Int(3 - d) ELSE n \div Pow10Int(d - 3)

\* A logarithm floored at the smallest energy, which never returns -inf.
TenLog10Clamped(e) ==
  IF e = 0 THEN Num(-80000)
  ELSE LET k == CHOOSE i \in 0..99 :
                  /\ Pow10Tab[i + 1] <= Mantissa(e)
                  /\ (i = 99 \/ Pow10Tab[i + 2] > Mantissa(e))
       IN  Num(100 * (100 * Decade(e) + k) - 80000)

\* 10 * np.log10(e) for an energy e >= 0 in 1/Scale^2, in 1/1000 dB, to the
\* 0.1 dB below; log10(0) is -inf (the RuntimeWarning is suppressed).
TenLog10(e) ==
  IF e = 0 THEN NegInf
  ELSE LET d == Decade(e)
           m == Mantissa(e)
           k == CHOOSE i \in 0..99 :
                  /\ Pow10Tab[i + 1] <= m
                  /\ (i = 99 \/ Pow10Tab[i + 2] > m)
       IN  Num(100 * (100 * d + k) - 80000)

\* 10 * np.log10 of a float that may already be NaN.
FTenLog10(x) ==
  CASE IsNaN(x)      -> NaN
    [] x.k = "pinf"  -> PosInf
    [] x.k = "ninf"  -> NaN
    [] OTHER         -> TenLog10(x.v)

\* ------------------------------------------------------------------------
\* meter.py: class IIRfilter
\* ------------------------------------------------------------------------

\* A raised exception, or none.
NoExc == "none"

\* generate_filter_coefficients: (b, a), both divided by a0; ValueError for a
\* filter_type outside high_shelf, peaking, high_pass.
generate_filter_coefficients(G, Q, fc, rate, filter_type) ==
  LET A     == PowA(G)
      c     == CosW0(fc, rate)
      alpha == (SinW0(fc, rate) * Scale) \div (2 * Q)
      sq    == SqrtA(A)
      raw ==
        CASE filter_type = "high_shelf" ->
               [b0 |-> Mul(A, (A + Scale) + Mul(A - Scale, c) + 2 * Mul(sq, alpha)),
                b1 |-> -2 * Mul(A, (A - Scale) + Mul(A + Scale, c)),
                b2 |-> Mul(A, (A + Scale) + Mul(A - Scale, c) - 2 * Mul(sq, alpha)),
                a0 |-> (A + Scale) - Mul(A - Scale, c) + 2 * Mul(sq, alpha),
                a1 |-> 2 * ((A - Scale) - Mul(A + Scale, c)),
                a2 |-> (A + Scale) - Mul(A - Scale, c) - 2 * Mul(sq, alpha)]
          [] filter_type = "peaking" ->
               [b0 |-> Scale + Mul(alpha, A),
                b1 |-> -2 * c,
                b2 |-> Scale - Mul(alpha, A),
                a0 |-> Scale + Div(alpha, A),
                a1 |-> -2 * c,
                a2 |-> Scale - Div(alpha, A)]
          [] filter_type = "high_pass" ->
               [b0 |-> (Scale + c) \div 2,
                b1 |-> -(Scale + c),
                b2 |-> (Scale + c) \div 2,
                a0 |-> Scale + alpha,
                a1 |-> -2 * c,
                a2 |-> Scale - alpha]
  IN  IF filter_type \in {"high_shelf", "peaking", "high_pass"}
      THEN [exc |-> NoExc,
            b |-> << Div(raw.b0, raw.a0), Div(raw.b1, raw.a0), Div(raw.b2, raw.a0) >>,
            a |-> << Div(raw.a0, raw.a0), Div(raw.a1, raw.a0), Div(raw.a2, raw.a0) >>]
      ELSE [exc |-> "ValueError", b |-> << >>, a |-> << >>]

\* IIRfilter.__init__: stores the parameters, then generates b and a once.
IIRfilter(G, Q, fc, rate, filter_type) ==
  LET co == generate_filter_coefficients(G, Q, fc, rate, filter_type)
  IN  [exc |-> co.exc,
       obj |-> [fc |-> fc, rate |-> rate, G |-> G, Q |-> Q,
                filter_type |-> filter_type, b |-> co.b, a |-> co.a]]

\* scipy.signal.lfilter(b, a, x) with zero initial state (direct form):
\* a[0] y[n] = b0 x[n] + b1 x[n-1] + b2 x[n-2] - a1 y[n-1] - a2 y[n-2].
\* The recursion runs over x[lo..hi] from the delay-line state st and returns
\* the outputs with the state after them; the range is split in halves only
\* to keep the evaluation shallow.
RECURSIVE lfilter_from(_, _, _, _, _, _)
lfilter_from(b, a, x, lo, hi, st) ==
  IF lo = hi
  THEN LET yn == (b[1] * x[lo] + b[2] * st.x1 + b[3] * st.x2
                  - a[2] * st.y1 - a[3] * st.y2) \div a[1]
       IN  [y |-> << yn >>, st |-> [x1 |-> x[lo], x2 |-> st.x1, y1 |-> yn, y2 |-> st.y1]]
  ELSE LET mid   == (lo + hi) \div 2
           left  == lfilter_from(b, a, x, lo, mid, st)
           right == lfilter_from(b, a, x, mid + 1, hi, left.st)
       IN  [y |-> left.y \o right.y, st |-> right.st]

lfilter(b, a, x) ==
  IF Len(x) = 0 THEN << >>
  ELSE lfilter_from(b, a, x, 1, Len(x), [x1 |-> 0, x2 |-> 0, y1 |-> 0, y2 |-> 0]).y

\* IIRfilter.apply_filter
apply_filter(stage, x) == lfilter(stage.b, stage.a, x)

\* ------------------------------------------------------------------------
\* meter.py: Meter.__init__
\* ------------------------------------------------------------------------

\* The dict self.filters in insertion order, built from constructor results:
\* the first IIRfilter that raises aborts the construction.
RECURSIVE BuildFilters(_)
BuildFilters(decl) ==
  IF decl = << >> THEN [exc |-> NoExc, filters |-> << >>]
  ELSE LET rest == BuildFilters(SubSeq(decl, 1, Len(decl) - 1))
           d    == decl[Len(decl)]
       IN  IF rest.exc # NoExc THEN rest
           ELSE IF d.f.exc # NoExc THEN [exc |-> d.f.exc, filters |-> << >>]
           ELSE [exc |-> NoExc,
                 filters |-> Append(rest.filters, [stage |-> d.f.obj, key |-> d.key])]

\* The defaults of the filter_class and block_size parameters (block_size in
\* ms).
DefaultFilterClass == "K-weighting"
DefaultBlockSize == 400

\* The stages of each filter class, in the order __init__ stores them.
KWeightingReversed(rate) ==
  << [f |-> IIRfilter(0, 5000, 38, rate, "high_pass"), key |-> "high_pass"],
     [f |-> IIRfilter(40, InvSqrt2, 1500, rate, "high_shelf"), key |-> "high_shelf"] >>

KWeighting(rate) ==
  << [f |-> IIRfilter(40, InvSqrt2, 1500, rate, "high_shelf"), key |-> "high_shelf"],
     [f |-> IIRfilter(0, 5000, 38, rate, "high_pass"), key |-> "high_pass"] >>

FentonLee1(rate) ==
  << [f |-> IIRfilter(50, InvSqrt2, 1500, rate, "high_shelf"), key |-> "high_shelf"],
     [f |-> IIRfilter(0, 5000, 130, rate, "high_pass"), key |-> "high_pass"],
     [f |-> IIRfilter(0, InvSqrt2, 500, rate, "peaking"), key |-> "peaking"] >>

DashEtAl(rate) ==
  << [f |-> IIRfilter(0, 3750, 149, rate, "high_pass"), key |-> "high_pass"],
     [f |-> IIRfilter(34, InvSqrt2, 1500, rate, "notch"), key |-> "notch"] >>

\* The filter classes __init__ has a branch for.
KnownClasses == {"K-weighting", "Fenton/Lee 1", "Fenton/Lee 2", "Dash et al."}

\* The end of __init__: the object, unless a stage's constructor raised.
MeterObject(rate, filter_class, block_size, built) ==
  IF built.exc # NoExc THEN [exc |-> built.exc, obj |-> [rate |-> rate]]
  ELSE [exc |-> NoExc,
        obj |-> [rate |-> rate, filters |-> built.filters,
                 filter_class |-> filter_class, block_size |-> block_size]]

\* Meter.__init__(rate, filter_class, block_size): block_size in ms.
\* "Fenton/Lee 2" stores two attributes and leaves self.filters empty.
Meter__init__(rate, filter_class, block_size) ==
  IF filter_class \notin KnownClasses
  THEN [exc |-> "ValueError", obj |-> [rate |-> rate]]
  ELSE MeterObject(rate, filter_class, block_size,
                   BuildFilters(CASE filter_class = "K-weighting"  -> KWeighting(rate)
                                  [] filter_class = "Fenton/Lee 1" -> FentonLee1(rate)
                                  [] filter_class = "Fenton/Lee 2" -> << >>
                                  [] filter_class = "Dash et al."  -> DashEtAl(rate)))

\* ------------------------------------------------------------------------
\* Audio buffers (numpy arrays)
\* ------------------------------------------------------------------------
\* An array is [dtype, ndim, ch]: ch is the sequence of its channels, each the
\* sequence of that channel's samples; a 1-D array has one channel.
NumSamples(data)  == Len(data.ch[1])
NumChannels(data) == Len(data.ch)

\* A view of the caller's array, and data.copy(): a new array that shares no
\* memory with the caller's.
ndarray_view(data) == [arr |-> data, owner |-> "caller"]
ndarray_copy(data) == [arr |-> data, owner |-> "meter"]

\* util.valid_audio(data, rate, block_size): the input contract of
\* integrated_loudness.  Returns the exception raised, or none.
valid_audio(data, rate, block_size) ==
  IF data.dtype \notin {"float16", "float32", "float64"} THEN "InvalidAudio"
  ELSE IF data.ndim = 2 /\ NumChannels(data) > 5 THEN "InvalidAudio"
  ELSE IF 1000 * NumSamples(data) < block_size * rate THEN "InvalidAudio"
  ELSE NoExc

\* ------------------------------------------------------------------------
\* meter.py: Meter.integrated_loudness
\* ------------------------------------------------------------------------

\* The check of the input contract on the copy, ahead of the filter loop; the
\* same step with the check left out.
ValidateNothing(meter, input_data) == NoExc
Validate(meter, input_data) == valid_audio(input_data.arr, meter.rate, meter.block_size)

\* The filter loop on one channel: stage 1 .. stage k, each applied to the
\* array the previous one wrote.  (ApplyStagesToOriginal is a loop in which
\* every stage reads the original channel.)
ApplyStagesToOriginal(filters, k, x) ==
  IF k = 0 THEN x ELSE apply_filter(filters[k].stage, x)

RECURSIVE ApplyStages(_, _, _)
ApplyStages(filters, k, x) ==
  IF k = 0 THEN x
  ELSE apply_filter(filters[k].stage, ApplyStages(filters, k - 1, x))

\* Channel gains G, in 1/100.
ChannelGain(i) == IF i <= 3 THEN 100 ELSE 141

\* np.sum(np.square(x[lo..hi])), summed in halves.
RECURSIVE SumSq(_, _, _)
SumSq(x, lo, hi) ==
  IF lo > hi THEN 0
  ELSE IF lo = hi THEN x[lo] * x[lo]
  ELSE LET mid == (lo + hi) \div 2
       IN  SumSq(x, lo, mid) + SumSq(x, mid + 1, hi)

RECURSIVE SumOver(_, _)
SumOver(f, S) ==
  IF S = {} THEN 0
  ELSE LET e == CHOOSE e \in S : TRUE IN f[e] + SumOver(f, S \ {e})

Min(a, b) == IF a < b THEN a ELSE b

\* np.round(num / den) for num >= 0, den > 0: half rounds to even.
RoundHalfEven(num, den) ==
  LET q == num \div den
      r == num % den
  IN  IF 2 * r < den THEN q
      ELSE IF 2 * r > den THEN q + 1
      ELSE IF q % 2 = 0 THEN q ELSE q + 1

\* numBlocks = int(np.round((T - T_g) / (T_g * step)) + 1), step = 1 - 0.75.
NumBlocks(numSamples, rate, T_g) ==
  RoundHalfEven(4 * (1000 * numSamples - T_g * rate), T_g * rate) + 1

\* l and u of block j (0-based): int(T_g * (j * step) * rate) and
\* int(T_g * (j * step + 1) * rate).
BlockLower(j, rate, T_g) == (T_g * j * rate) \div 4000
BlockUpper(j, rate, T_g) == (T_g * (j + 4) * rate) \div 4000

\* z[i, j]: mean square of the slice input_data[l:u, i]; the slice ends at
\* the end of the array when u lies beyond it.
BlockEnergy(x, j, rate, T_g) ==
  LET l == BlockLower(j, rate, T_g)
      u == Min(BlockUpper(j, rate, T_g), Len(x))
  IN  (SumSq(x, l + 1, u) * 10) \div ((T_g * rate) \div 100)

\* np.sum([G[i] * v[i] for i in range(numChannels)]) over floats: NaN as soon
\* as one term is NaN.
WeightedSum(v) ==
  IF \E i \in DOMAIN v : IsNaN(v[i]) THEN NaN
  ELSE Num(SumOver([i \in DOMAIN v |-> ChannelGain(i) * v[i].v], DOMAIN v) \div 100)

\* np.mean([z[i, j] for j in J_g]): NaN for an empty list (warning suppressed).
GatedMean(zi, J_g) ==
  IF J_g = {} THEN NaN
  ELSE Num(SumOver(zi, J_g) \div Cardinality(J_g))

\* nan_kept leaves a NaN average in place.
nan_kept(x) == x

\* np.nan_to_num on one value.
nan_to_num(x) == IF IsNaN(x) THEN Num(0) ELSE x

\* -0.691 + 10 * log10(x), in 1/1000 dB.
Loudness(x) == FAddConst(FTenLog10(x), -691)

\* Gamma_a, in 1/1000 dB.
Gamma_a == Num(-70000)

\* The two gating passes over the block loudness values l: the blocks at or
\* above the absolute threshold, and the blocks above both the relative and
\* the absolute threshold.  (AbsoluteGateStrict is a first pass with >.)
AbsoluteGateStrict(l) == {j \in DOMAIN l : FGt(l[j], Gamma_a)}
AbsoluteGate(l) == {j \in DOMAIN l : FGe(l[j], Gamma_a)}
RelativeGate(l, Gamma_r) == {j \in DOMAIN l : FGt(l[j], Gamma_r) /\ FGt(l[j], Gamma_a)}

integrated_loudness(meter, data) ==
  LET input_data == ndarray_copy(data)
      invalid    == Validate(meter, input_data)
      numChannels == NumChannels(data)
      numSamples  == NumSamples(data)
      \* the filter loop writes each channel of input_data in place
      filtered == Tuple([ch \in 1..numChannels |->
                     ApplyStages(meter.filters, Len(meter.filters), input_data.arr.ch[ch])])
      T_g == meter.block_size
      numBlocks == NumBlocks(numSamples, meter.rate, T_g)
      z == Tuple([i \in 1..numChannels |->
              Tuple([j \in 1..numBlocks |-> BlockEnergy(filtered[i], j - 1, meter.rate, T_g)])])
      l == Tuple([j \in 1..numBlocks |->
              Loudness(WeightedSum([i \in 1..numChannels |-> Num(z[i][j])]))])
      J_a == AbsoluteGate(l)
      z_avg_a == Tuple([i \in 1..numChannels |-> GatedMean(z[i], J_a)])
      Gamma_r == FAddConst(Loudness(WeightedSum(z_avg_a)), -10000)
      J_g == RelativeGate(l, Gamma_r)
      z_avg_gated == Tuple([i \in 1..numChannels |-> nan_to_num(GatedMean(z[i], J_g))])
      LUFS == Loudness(WeightedSum(z_avg_gated))
      \* what the caller's array holds afterwards
      written == IF input_data.owner = "caller"
                 THEN [data EXCEPT !.ch = filtered] ELSE data
  IN  IF invalid # NoExc
      THEN [exc |-> invalid, l |-> << >>, J_g |-> {}, Gamma_r |-> NaN,
            filtered |-> << >>, numBlocks |-> 0,
            J_a |-> {}, z_avg_gated |-> << >>, ret |-> NaN, stages |-> 0,
            caller |-> data]
      ELSE IF numBlocks > numSamples
      THEN [exc |-> "IndexError", l |-> << >>,
            J_g |-> {}, Gamma_r |-> NaN,
            filtered |-> filtered, numBlocks |-> numBlocks,
            J_a |-> {}, z_avg_gated |-> << >>,
            ret |-> NaN, stages |-> Len(meter.filters) * numChannels,
            caller |-> written]
      ELSE [exc |-> NoExc, l |-> l,
            J_g |-> J_g, Gamma_r |-> Gamma_r,
            filtered |-> filtered, numBlocks |-> numBlocks,
            J_a |-> J_a, z_avg_gated |-> z_avg_gated,
            ret |-> LUFS, stages |-> Len(meter.filters) * numChannels,
            caller |-> written]

\* ------------------------------------------------------------------------
\* Meter.loudness_range (EBU Tech 3342)
\* ------------------------------------------------------------------------

\* 10 ** (l / 10) for a loudness l in 1/1000 dB, as an energy in 1/Scale^2.
EnergyOf(l) ==
  LET e == (l + 80000) \div 100
      d == e \div 100
      k == e % 100
  IN  IF d >= 3 THEN Pow10Tab[k + 1] * Pow10Int(d - 3)
      ELSE IF d >= 0 THEN Pow10Tab[k + 1] \div Pow10Int(3 - d)
      ELSE 0

\* The k-th smallest (k = 1..Len(x)) of a sequence of integers.
KthSmallest(x, k) ==
  CHOOSE v \in {x[i] : i \in DOMAIN x} :
    /\ Cardinality({i \in DOMAIN x : x[i] < v}) <= k - 1
    /\ Cardinality({i \in DOMAIN x : x[i] <= v}) >= k

\* np.percentile(x, p) with linear interpolation, p in percent.
Percentile(x, p) ==
  LET n   == Len(x)
      pos == (n - 1) * p
      lo  == pos \div 100
      fr  == pos % 100
      vlo == KthSmallest(x, lo + 1)
      vhi == KthSmallest(x, Min(lo + 2, n))
  IN  vlo + ((vhi - vlo) * fr) \div 100

\* The input with 1.5 s of zeros appended to every channel.
PadSilence(data, rate) ==
  [data EXCEPT !.ch = Tuple([c \in DOMAIN data.ch |->
                         data.ch[c] \o [t \in 1..((15 * rate) \div 10) |-> 0]])]

\* Steps 4 to 7 on the stored per-block loudness values.
LraOfBlocks(stl) ==
  LET abs_idx == {i \in DOMAIN stl : FGe(stl[i], Gamma_a)}
      power   == SumOver([i \in DOMAIN stl |-> IF i \in abs_idx THEN EnergyOf(stl[i].v) ELSE 0],
                         abs_idx) \div Cardinality(abs_idx)
      rel     == FAddConst(TenLog10(power), -20000)
      rel_idx == {i \in abs_idx : FGe(stl[i], rel)}
      kept    == [n \in 1..Cardinality(rel_idx) |->
                    KthSmallest([i \in DOMAIN stl |->
                                   IF i \in rel_idx THEN stl[i].v ELSE 1000000], n)]
  IN  IF abs_idx = {} THEN [ret |-> NaN, path |-> "nan_absolute"]
      ELSE IF rel_idx = {} THEN [ret |-> NaN, path |-> "nan_relative"]
      ELSE [ret |-> Num(Percentile(kept, 95) - Percentile(kept, 10)), path |-> "normal"]

\* The temporary settings of loudness_range: block_size 3.0 s, overlap 0.97.
Override(meter) == [meter EXCEPT !.block_size = 3000]
LraOverlap == 970

\* The save of block_size and overlap on entry, and the restoration of both
\* on exit: the Meter and its overlap after the restoration.  (RestoreNothing
\* and RestoreOverlapOnly are exits that restore nothing, or the overlap only.)
SaveSettings(meter, overlap) == [block_size |-> meter.block_size, overlap |-> overlap]
RestoreNothing(over, over_overlap, saved) == [meter |-> over, overlap |-> over_overlap]
RestoreOverlapOnly(over, over_overlap, saved) == [meter |-> over, overlap |-> saved.overlap]
RestoreSettings(over, over_overlap, saved) ==
  [meter |-> [over EXCEPT !.block_size = saved.block_size], overlap |-> saved.overlap]

\* The exit of loudness_range once integrated_loudness has returned or raised
\* (inner) on the padded input, run on the overridden Meter (over,
\* over_overlap): the result or the exception, and the attributes after the
\* restoration, which every exit passes through.
loudness_range_exit(saved, over, over_overlap, blockwise, inner, lra) ==
  LET exc == IF inner.exc # NoExc THEN inner.exc
             ELSE IF blockwise = << >> THEN "InternalError" ELSE NoExc
  IN  [exc |-> exc,
       ret |-> IF exc = NoExc THEN lra.ret ELSE NaN,
       path |-> IF inner.exc # NoExc THEN "measure_raised"
                ELSE IF blockwise = << >> THEN "no_blocks" ELSE lra.path,
       inner |-> inner,
       during |-> SaveSettings(over, over_overlap),
       after |-> RestoreSettings(over, over_overlap, saved)]

\* loudness_range(data) on a Meter whose attributes are (meter, overlap,
\* blockwise_loudness): integrated_loudness runs on the input padded with
\* silence, under the temporary settings.
loudness_range(meter, overlap, blockwise, data) ==
  loudness_range_exit(SaveSettings(meter, overlap), Override(meter), LraOverlap, blockwise,
                      integrated_loudness(Override(meter), PadSilence(data, meter.rate)),
                      LraOfBlocks(blockwise))

\* ------------------------------------------------------------------------
\* normalize.py
\* ------------------------------------------------------------------------

\* np.power(10.0, t / 20.0) for t in 1/1000 dB, in 1/Scale, to the table's
\* resolution.
Pow10Amp(t) ==
  LET e == t \div 200
      d == e \div 100
      k == e % 100
  IN  IF d >= 0 THEN Pow10Tab[k + 1] * 10 * Pow10Int(d)
      ELSE (Pow10Tab[k + 1] * 10) \div Pow10Int(-d)

\* gain * x for a float gain and a finite sample x.
FMulSample(g, x) ==
  CASE IsNaN(g)      -> NaN
    [] g.k = "pinf"  -> IF x = 0 THEN NaN ELSE IF x > 0 THEN PosInf ELSE NegInf
    [] g.k = "ninf"  -> IF x = 0 THEN NaN ELSE IF x > 0 THEN NegInf ELSE PosInf
    [] OTHER         -> Num((g.v * x) \div Scale)

FAbs(x) == IF IsNum(x) THEN Num(Abs(x.v)) ELSE IF IsNaN(x) THEN NaN ELSE PosInf

\* np.max over a non-empty set of floats: NaN if any element is NaN.
FMaxOf(S) ==
  IF \E x \in S : IsNaN(x) THEN NaN
  ELSE CHOOSE m \in S : \A x \in S : FGe(m, x)

Samples(arr) == {arr.ch[c][t] : c \in DOMAIN arr.ch, t \in 1..Len(arr.ch[1])}

\* gain * data, sample by sample.
ScaleArray(g, data) ==
  [ch |-> Tuple([c \in DOMAIN data.ch |->
                   Tuple([t \in DOMAIN data.ch[c] |-> FMulSample(g, data.ch[c][t])])]),
   dtype |-> "float64", ndim |-> data.ndim]

\* np.max(np.abs(output)) >= 1.0; ClippedStrict is the comparison with >.
ClippedStrict(output) == FGt(FMaxOf({FAbs(v) : v \in Samples(output)}), Num(Scale))
Clipped(output) == FGe(FMaxOf({FAbs(v) : v \in Samples(output)}), Num(Scale))

NoArray == [ch |-> << << >> >>, dtype |-> "float64", ndim |-> 1]

\* Binding of a positional call to the parameters (data, fs, <target>):
\* TypeError unless exactly three arguments are given.
BindThree(args) == IF Len(args) = 3 THEN NoExc ELSE "TypeError"

\* The end of peak and of loudness: the clipping check on the output (a
\* warning, not an error), then the output is returned.
Checked(output) == [exc |-> NoExc, out |-> output, warned |-> Clipped(output)]

\* gain = np.power(10.0, target_peak/20.0) / current_peak; a zero peak divides
\* by zero, which numpy answers with inf.
PeakGain(target_peak, current_peak) ==
  IF current_peak.v = 0 THEN PosInf ELSE Num(Div(Pow10Amp(target_peak), current_peak.v))

\* peak(data, fs, target_peak), called with the positional arguments args.
peak(args) ==
  IF BindThree(args) # NoExc
  THEN [exc |-> BindThree(args), out |-> NoArray, warned |-> FALSE]
  ELSE Checked(ScaleArray(PeakGain(args[3].f, FMaxOf({Num(Abs(v)) : v \in Samples(args[1].arr)})),
                          args[1].arr))

\* What integrated_loudness returns at a rate that is not positive: the
\* duration T = numSamples / rate is not positive either, numBlocks <= 0, no
\* block is measured, every gated average is replaced by 0 and the result is
\* -0.691 + 10 log10(0).
NoBlocksMeasured(data) ==
  [exc |-> NoExc, l |-> << >>, J_g |-> {}, Gamma_r |-> NaN, filtered |-> << >>,
   numBlocks |-> 0, J_a |-> {},
   z_avg_gated |-> Tuple([i \in 1..NumChannels(data) |-> Num(0)]),
   ret |-> NegInf, stages |-> 0, caller |-> data]

\* pyloudnorm.loudness.measure_gated_loudness(data, fs): the integrated
\* loudness measured by a default Meter at rate fs, fs in 1/1000 Hz.
measure_gated_loudness(data, fs) ==
  IF fs <= 0 THEN NoBlocksMeasured(data)
  ELSE integrated_loudness(Meter__init__(fs \div 1000, DefaultFilterClass, DefaultBlockSize).obj,
                           data)

\* target - x over floats.
FSubFrom(target, x) ==
  CASE IsNaN(x)      -> NaN
    [] x.k = "ninf"  -> PosInf
    [] x.k = "pinf"  -> NegInf
    [] OTHER         -> Num(target - x.v)

\* np.power(10.0, delta / 20.0) over floats.
FPow10Amp(delta) ==
  CASE IsNaN(delta)      -> NaN
    [] delta.k = "pinf"  -> PosInf
    [] delta.k = "ninf"  -> Num(0)
    [] OTHER             -> Num(Pow10Amp(delta.v))

\* loudness(data, fs, target_loudness) once the input loudness is measured:
\* the gain from the difference to the target, the scaled output, the
\* clipping check.
loudness_apply(data, target_loudness, measured) ==
  IF measured.exc # NoExc
  THEN [exc |-> measured.exc, out |-> NoArray, warned |-> FALSE]
  ELSE Checked(ScaleArray(FPow10Amp(FSubFrom(target_loudness, measured.ret)), data))

\* loudness(data, fs, target_loudness), called with the positional arguments
\* args.
loudness(args) ==
  IF BindThree(args) # NoExc
  THEN [exc |-> BindThree(args), out |-> NoArray, warned |-> FALSE]
  ELSE loudness_apply(args[1].arr, args[3].f, measure_gated_loudness(args[1].arr, args[2].f))

\* ------------------------------------------------------------------------
\* iirfilter.py: IIRfilter
\* ------------------------------------------------------------------------

\* generate_coefficients: (b, a), both divided by a0; ValueError for a
\* filter_type outside high_shelf, low_shelf, high_pass, low_pass, peaking,
\* notch.  The high_shelf, high_pass and peaking branches are, line for line,
\* those of meter.py's generate_filter_coefficients.
generate_coefficients(G, Q, fc, rate, filter_type) ==
  LET A     == PowA(G)
      c     == CosW0(fc, rate)
      alpha == (SinW0(fc, rate) * Scale) \div (2 * Q)
      sq    == SqrtA(A)
      raw ==
        CASE filter_type = "low_shelf" ->
               [b0 |-> Mul(A, (A + Scale) - Mul(A - Scale, c) + 2 * Mul(sq, alpha)),
                b1 |-> 2 * Mul(A, (A - Scale) - Mul(A + Scale, c)),
                b2 |-> Mul(A, (A + Scale) - Mul(A - Scale, c) - 2 * Mul(sq, alpha)),
                a0 |-> (A + Scale) + Mul(A - Scale, c) + 2 * Mul(sq, alpha),
                a1 |-> -2 * ((A - Scale) + Mul(A + Scale, c)),
                a2 |-> (A + Scale) + Mul(A - Scale, c) - 2 * Mul(sq, alpha)]
          [] filter_type = "low_pass" ->
               [b0 |-> (Scale - c) \div 2,
                b1 |-> Scale - c,
                b2 |-> (Scale - c) \div 2,
                a0 |-> Scale + alpha,
                a1 |-> -2 * c,
                a2 |-> Scale - alpha]
          [] filter_type = "notch" ->
               [b0 |-> Scale,
                b1 |-> -2 * c,
                b2 |-> Scale,
                a0 |-> Scale + alpha,
                a1 |-> -2 * c,
                a2 |-> Scale - alpha]
  IN  IF filter_type \in {"high_shelf", "high_pass", "peaking"}
      THEN generate_filter_coefficients(G, Q, fc, rate, filter_type)
      ELSE IF filter_type \in {"low_shelf", "low_pass", "notch"}
      THEN [exc |-> NoExc,
            b |-> << Div(raw.b0, raw.a0), Div(raw.b1, raw.a0), Div(raw.b2, raw.a0) >>,
            a |-> << Div(raw.a0, raw.a0), Div(raw.a1, raw.a0), Div(raw.a2, raw.a0) >>]
      ELSE [exc |-> "ValueError", b |-> << >>, a |-> << >>]

\* iirfilter.IIRfilter.__init__: stores the parameters and the passband gain
\* (in 1/Scale); b and a are properties, nothing is generated here.
iirfilter_IIRfilter(G, Q, fc, rate, filter_type, passband_gain) ==
  [exc |-> NoExc,
   obj |-> [fc |-> fc, rate |-> rate, G |-> G, Q |-> Q, filter_type |-> filter_type,
            b |-> << >>, a |-> << >>, passband_gain |-> passband_gain]]

\* The properties b and a: generate_coefficients() on every access.
iirfilter_coefficients(f) == generate_coefficients(f.G, f.Q, f.fc, f.rate, f.filter_type)

\* iirfilter.IIRfilter.apply_filter: passband_gain * lfilter(self.b, self.a,
\* data), co what the access to self.b and self.a gave.
iirfilter_applied(f, co, x) ==
  IF co.exc # NoExc THEN [y |-> << >>, exc |-> co.exc, b |-> << >>, a |-> << >>]
  ELSE [y |-> LET out == lfilter(co.b, co.a, x)
              IN  Tuple([t \in DOMAIN out |-> Mul(f.passband_gain, out[t])]),
        exc |-> NoExc, b |-> co.b, a |-> co.a]

iirfilter_apply_filter(f, x) == iirfilter_applied(f, iirfilter_coefficients(f), x)

\* ------------------------------------------------------------------------
\* util.py: validate_input_data
\* ------------------------------------------------------------------------

\* A sample of an integer array is a sign and a magnitude, and a magnitude is
\* written 2^e - n (Near) or n (Small), so that the ends of the 32- and 64-bit
\* ranges can be written; n < 2^30, and n <= 2^(e-1) in Near(e, n) for e > 30.
Near(e, n) == [n |-> n, e |-> e, top |-> TRUE]
Small(n)   == [n |-> n, e |-> 0, top |-> FALSE]
IntSample(neg, mag) == [neg |-> neg, mag |-> mag]

RECURSIVE Pow2(_)
Pow2(e) == IF e = 0 THEN 1 ELSE 2 * Pow2(e - 1)

\* a <= b for magnitudes
LeqMag(a, b) ==
  CASE a.top /\ b.top   -> IF a.e = b.e THEN a.n >= b.n ELSE a.e < b.e
    [] ~a.top /\ ~b.top -> a.n <= b.n
    [] ~a.top /\ b.top  -> IF b.e <= 30 THEN a.n <= Pow2(b.e) - b.n ELSE TRUE
    [] a.top /\ ~b.top  -> IF a.e <= 30 THEN Pow2(a.e) - a.n <= b.n ELSE FALSE

\* The magnitude as a float with a significand of p bits (float32: 24,
\* float64: 53): exact below 2^p, and above it rounded to the nearest multiple
\* of 2^(e-p), a half going to the even significand.
ToFloat(mag, p) ==
  IF ~mag.top \/ mag.e <= p THEN mag
  ELSE Near(mag.e, RoundHalfEven(mag.n, Pow2(mag.e - p)) * Pow2(mag.e - p))

\* data.astype(float) / divisor, sample by sample: the array and the divisor
\* (the literal 2^e - 1) are both taken to the float type of p bits, and a
\* sample of the result is the float quotient num / den with the sign of the
\* sample.  The quotient of two floats is at most 1 in magnitude exactly when
\* num <= den, since the division rounds monotonically and 1 is a float.
Quotient(sample, e, p) ==
  [num |-> ToFloat(sample.mag, p), den |-> ToFloat(Near(e, 1), p), neg |-> sample.neg]

DividedBy(data, dtype, e, p) ==
  [data EXCEPT !.dtype = dtype,
               !.ch = Tuple([c \in DOMAIN data.ch |->
                        Tuple([t \in DOMAIN data.ch[c] |->
                                 Quotient(data.ch[c][t], e, p)])])]

valid_dtypes == {"int8", "int16", "int32", "int64", "float16", "float32", "float64"}

\* validate_input_data(data, fs), on the array reshaped to two dimensions; fs
\* is not used.
validate_shaped(data) ==
  IF data.dtype \notin valid_dtypes THEN [exc |-> "RuntimeError", out |-> NoArray]
  ELSE [exc |-> NoExc,
        out |-> CASE data.dtype = "int64"   -> DividedBy(data, "float64", 63, 53)
                  [] data.dtype = "int32"   -> DividedBy(data, "float32", 31, 24)
                  [] data.dtype = "int16"   -> DividedBy(data, "float32", 15, 24)
                  [] data.dtype = "int8"    -> DividedBy(data, "float32", 7, 24)
                  [] data.dtype = "float16" -> [data EXCEPT !.dtype = "float32"]
                  [] OTHER                  -> data]

validate_input_data(data) ==
  validate_shaped(IF data.ndim = 1 THEN [data EXCEPT !.ndim = 2] ELSE data)

\* ------------------------------------------------------------------------
\* Inputs
\* ------------------------------------------------------------------------
MaxLen  == 26
LongLen == 50

Rates         == {31}
BlockSizes    == {DefaultBlockSize, 500, 1000}
FilterClasses == {"K-weighting", "Fenton/Lee 1", "Fenton/Lee 2", "Dash et al.",
                  "DeMan", "A-weighting"}

\* A tone at half the sample rate of amplitude amp, and one whose first
\* `split` samples have amplitude a1 and the rest a2.
Tone(n, amp) == Tuple([t \in 1..n |-> IF t % 2 = 1 THEN amp ELSE -amp])
TwoLevel(n, split, a1, a2) ==
  Tuple([t \in 1..n |-> (IF t % 2 = 1 THEN 1 ELSE -1) * (IF t <= split THEN a1 ELSE a2)])

Array1(dtype, x)  == [ch |-> << x >>, dtype |-> dtype, ndim |-> 1]
Array2(dtype, ch) == [ch |-> ch, dtype |-> dtype, ndim |-> 2]
\* np.array(v): a 0-d array
Array0(v) == [ch |-> << << v >> >>, dtype |-> "float64", ndim |-> 0]

\* The classes assigned to the filter_class attribute of an existing Meter.
AssignedClasses == {"K-weighting", "Fenton/Lee 1"}

\* Parameters of stand-alone filters and the values later assigned to them,
\* the two IIRfilter classes of the package, and the signals filtered: a tone
\* and an impulse.
FilterGains  == {0, 40}
FilterQs     == {5000, InvSqrt2}
FilterFcs    == {130, 500}
FilterRates  == {31, 62}
FilterShapes == {"high_shelf", "high_pass", "peaking", "notch", "allpass"}
FilterClassesOfPackage == {"meter", "iirfilter"}
FilterData   == {Tone(6, 500), << Scale, 0, 0, 0 >>}
Assignable ==
       {<< "G", v >> : v \in FilterGains} \cup {<< "Q", v >> : v \in FilterQs}
  \cup {<< "fc", v >> : v \in FilterFcs} \cup {<< "rate", v >> : v \in FilterRates}
  \cup {<< "filter_type", v >> : v \in FilterShapes}

\* Arrays given to validate_input_data: every int8 value, the values at and
\* near the ends of the wider integer ranges and near 0, float arrays, and a
\* dtype outside the valid ones.
EndOffsets == {0, 1, 2, 63, 64, 65, 1000}
Int8Values ==
       {IntSample(TRUE, Near(7, n)) : n \in 0..127}
  \cup {IntSample(FALSE, Near(7, n)) : n \in 1..128}
WideValues(e) ==
       {IntSample(TRUE, Near(e, n)) : n \in EndOffsets}
  \cup {IntSample(FALSE, Near(e, n)) : n \in EndOffsets \ {0}}
  \cup {IntSample(TRUE, Small(n)) : n \in {1, 5}}
  \cup {IntSample(FALSE, Small(n)) : n \in {0, 1, 5}}
UtilInputs ==
       {Array1("int8", << v >>) : v \in Int8Values}
  \cup {Array1("int16", << v >>) : v \in WideValues(15)}
  \cup {Array1("int32", << v >>) : v \in WideValues(31)}
  \cup {Array1("int64", << v >>) : v \in WideValues(63)}
  \cup {Array2("int16", << << IntSample(FALSE, Near(15, 1)), IntSample(TRUE, Small(5)) >>,
                          << IntSample(TRUE, Near(15, 0)), IntSample(FALSE, Small(0)) >> >>),
        Array1("float64", Tone(4, 500)), Array1("float16", Tone(4, 500)),
        Array2("float32", << Tone(4, 500), Tone(4, 0) >>),
        Array1("uint8", << IntSample(FALSE, Small(5)) >>)}

\* Amplitudes: silence, a level under the -70 gate, one just over it, a loud one.
Amps == {0, 2, 3, 500}

MeterInputs ==
     {Array1("float64", Tone(n, a)) : n \in {12, 13, 14, MaxLen}, a \in Amps}
  \cup {Array1("float64", TwoLevel(MaxLen, 13, 3, 500)),
        Array1("float64", Tone(LongLen, 500)),
        Array1("float64", Tone(LongLen, 2)),
        \* one block of 1 s at rate 31, and 1 s and two thirds of a hop
        Array1("float64", Tone(31, 500)),
        Array1("float64", Tone(36, 500)),
        Array1("int16", Tone(MaxLen, 500)),
        Array2("float64", << Tone(MaxLen, 500) >>),
        Array2("float64", << Tone(MaxLen, 500), Tone(MaxLen, 0) >>),
        Array2("float64", << Tone(MaxLen, 0), Tone(MaxLen, 0) >>),
        Array2("float64", Tuple([c \in 1..6 |-> Tone(MaxLen, 500)]))}

\* Positional arguments: an array, or a number in 1/1000 (of a Hz or of a dB).
PyArr(arr) == [f |-> 0, arr |-> arr, t |-> "ndarray"]
PyNum(v)   == [f |-> v, arr |-> NoArray, t |-> "number"]

NormInputs ==
  {Array0(5000), Array1("float64", Tone(MaxLen, 500)), Array1("float64", Tone(MaxLen, 0)),
   Array1("float64", Tone(MaxLen, 2)), Array1("float64", Tone(12, 500))}
Targets == {0, -6000, 6000}

\* Calls of peak and loudness: with the three parameters of the signature,
\* and with two arguments, (data, target) for peak as in test_peak_normalize.
ThreeArgCalls == {<< PyArr(d), PyNum(1000 * r), PyNum(t) >> :
                    d \in NormInputs, r \in Rates, t \in Targets}
TwoArgCalls   == {<< PyArr(d), PyNum(t) >> : d \in NormInputs, t \in Targets}

\* The loudness of d as test_loudness_normalize measures it, with a default
\* Meter, and the test's calls loudness(data, loudness, target): the second
\* argument is the measured loudness of the data.
MeasuredLoudness(d) ==
  integrated_loudness(Meter__init__(CHOOSE r \in Rates : TRUE, DefaultFilterClass,
                                    DefaultBlockSize).obj, d).ret
PrecomputedCalls ==
  {<< PyArr(d), PyNum(MeasuredLoudness(d).v), PyNum(t) >> :
     d \in {Array1("float64", Tone(MaxLen, 500)), Array1("float64", Tone(MaxLen, 3))},
     t \in Targets}

\* ------------------------------------------------------------------------
\* State
\* ------------------------------------------------------------------------
VARIABLES
  meter,              \* the Meter object: [exists, rate, filter_class, block_size, filters]
  overlap,            \* Meter.overlap, in 1/1000
  blockwise_loudness, \* Meter.blockwise_loudness
  last,               \* the last call: what was called, with what, and how it ended
  filt,               \* a stand-alone IIRfilter object of either class
  fcall,              \* the last call on it: what was called and how it ended
  ucall               \* the last call of a util function: with what, and how it ended

mvars == << meter, overlap, blockwise_loudness, last >>
fvars == << filt, fcall >>
vars  == << meter, overlap, blockwise_loudness, last, filt, fcall, ucall >>

NoMeter == [rate |-> 0, filters |-> << >>, filter_class |-> "", block_size |-> 0,
            exists |-> FALSE]

NoCall ==
  [exc |-> NoExc, data |-> NoArray, l |-> << >>, J_g |-> {}, Gamma_r |-> NaN,
   filtered |-> << >>, numBlocks |-> 0, J_a |-> {}, z_avg_gated |-> << >>, ret |-> NaN,
   stages |-> 0, caller |-> NoArray, path |-> "", inner |-> NoExc,
   during |-> SaveSettings(NoMeter, 0), out |-> NoArray, warned |-> FALSE, fs |-> 0,
   target |-> 0, op |-> "none", nargs |-> 0, arg |-> "", before |-> SaveSettings(NoMeter, 0)]

NoFilter ==
  [fc |-> 0, rate |-> 0, G |-> 0, Q |-> 0, filter_type |-> "", b |-> << >>,
   a |-> << >>, passband_gain |-> 0, exists |-> FALSE, cls |-> ""]

NoFilterCall ==
  [x |-> << >>, y |-> << >>, exc |-> NoExc, b |-> << >>, a |-> << >>,
   op |-> "none", arg |-> "", cls |-> ""]

NoUtilCall == [exc |-> NoExc, data |-> NoArray, out |-> NoArray, op |-> "none"]

Init ==
  /\ meter = NoMeter
  /\ overlap = 0
  /\ blockwise_loudness = << >>
  /\ last = NoCall
  /\ filt = NoFilter
  /\ fcall = NoFilterCall
  /\ ucall = NoUtilCall

\* The default of the overlap setting.
DefaultOverlap == 750

\* meter = Meter(rate, filter_class, block_size), r what the constructor
\* returned or raised
Constructed(r, filter_class) ==
  /\ IF r.exc = NoExc
     THEN /\ meter' = [rate |-> r.obj.rate, filters |-> r.obj.filters,
                       filter_class |-> r.obj.filter_class,
                       block_size |-> r.obj.block_size, exists |-> TRUE]
          /\ overlap' = DefaultOverlap
          /\ blockwise_loudness' = << >>
     ELSE UNCHANGED << meter, overlap, blockwise_loudness >>
  /\ last' = [NoCall EXCEPT !.op = "Meter", !.exc = r.exc, !.arg = filter_class]
  /\ UNCHANGED << fvars, ucall >>

Construct(rate, filter_class, block_size) ==
  Constructed(Meter__init__(rate, filter_class, block_size), filter_class)

\* meter.filter_class = filter_class on an existing Meter: filter_class is a
\* plain attribute, the assignment stores the name and touches nothing else.
SetFilterClass(filter_class) ==
  /\ meter.exists
  /\ meter' = [meter EXCEPT !.filter_class = filter_class]
  /\ last' = [NoCall EXCEPT !.op = "filter_class", !.arg = filter_class]
  /\ UNCHANGED << overlap, blockwise_loudness >>
  /\ UNCHANGED << fvars, ucall >>

\* meter.integrated_loudness(data), r what the call returned or raised
Measured(data, r) ==
  /\ last' = [NoCall EXCEPT !.op = "integrated_loudness", !.exc = r.exc, !.ret = r.ret,
                            !.data = data, !.caller = r.caller, !.stages = r.stages,
                            !.numBlocks = r.numBlocks, !.J_a = r.J_a, !.J_g = r.J_g,
                            !.filtered = r.filtered, !.l = r.l, !.Gamma_r = r.Gamma_r,
                            !.z_avg_gated = r.z_avg_gated,
                            !.before = SaveSettings(meter, overlap)]
  /\ UNCHANGED << meter, overlap, blockwise_loudness >>
  /\ UNCHANGED << fvars, ucall >>

CallIntegratedLoudness(data) ==
  /\ meter.exists
  /\ Measured(data, integrated_loudness(meter, data))

\* meter.loudness_range(data), r what the call returned or raised
Ranged(data, r) ==
  /\ meter' = r.after.meter
  /\ overlap' = r.after.overlap
  /\ last' = [NoCall EXCEPT !.op = "loudness_range", !.exc = r.exc, !.ret = r.ret,
                            !.data = data, !.caller = data, !.path = r.path,
                            !.inner = r.inner.exc, !.stages = r.inner.stages,
                            !.before = SaveSettings(meter, overlap),
                            !.during = r.during]
  /\ UNCHANGED blockwise_loudness
  /\ UNCHANGED << fvars, ucall >>

CallLoudnessRange(data) ==
  /\ meter.exists
  /\ Ranged(data, loudness_range(meter, overlap, blockwise_loudness, data))

\* pyloudnorm.normalize.peak(*args) and pyloudnorm.normalize.loudness(*args),
\* r what the call returned or raised
Normalized(op, args, r) ==
  /\ last' = [NoCall EXCEPT !.op = op, !.exc = r.exc, !.out = r.out,
                            !.warned = r.warned, !.nargs = Len(args),
                            !.data = args[1].arr, !.caller = args[1].arr,
                            !.target = args[Len(args)].f,
                            !.fs = IF Len(args) = 3 THEN args[2].f ELSE 0]
  /\ UNCHANGED << meter, overlap, blockwise_loudness >>
  /\ UNCHANGED << fvars, ucall >>

CallPeak(args) == Normalized("peak", args, peak(args))

CallLoudness(args) == Normalized("loudness", args, loudness(args))

Next ==
  \/ \E r \in Rates, fc \in FilterClasses, bs \in BlockSizes : Construct(r, fc, bs)
  \/ \E fc \in AssignedClasses : SetFilterClass(fc)
  \/ \E d \in MeterInputs : CallIntegratedLoudness(d)
  \/ \E d \in MeterInputs : CallLoudnessRange(d)
  \/ \E a \in ThreeArgCalls \cup TwoArgCalls : CallPeak(a)
  \/ \E a \in ThreeArgCalls \cup PrecomputedCalls : CallLoudness(a)

Spec == Init /\ [][Next]_vars

\* ------------------------------------------------------------------------
\* Stand-alone filters
\* ------------------------------------------------------------------------

\* f = IIRfilter(G, Q, fc, rate, filter_type) of class cls, r what the
\* constructor returned or raised: f is bound only when it returned.
FilterConstructed(cls, filter_type, r) ==
  /\ filt' = IF r.exc # NoExc THEN filt
             ELSE [fc |-> r.obj.fc, rate |-> r.obj.rate, G |-> r.obj.G, Q |-> r.obj.Q,
                   filter_type |-> r.obj.filter_type, b |-> r.obj.b, a |-> r.obj.a,
                   passband_gain |-> IF cls = "iirfilter" THEN r.obj.passband_gain
                                     ELSE Scale, exists |-> TRUE,
                   cls |-> cls]
  /\ fcall' = [NoFilterCall EXCEPT !.op = "IIRfilter", !.exc = r.exc,
                                   !.arg = filter_type, !.cls = cls]
  /\ UNCHANGED << mvars, ucall >>

ConstructFilter(cls, G, Q, fc, rate, filter_type) ==
  IF cls = "meter"
  THEN FilterConstructed(cls, filter_type, IIRfilter(G, Q, fc, rate, filter_type))
  ELSE FilterConstructed(cls, filter_type,
                         iirfilter_IIRfilter(G, Q, fc, rate, filter_type, Scale))

\* f.<name> = value for one of the parameters: they are plain attributes in
\* both classes.
SetParameter(name, value) ==
  /\ filt.exists
  /\ filt' = [filt EXCEPT ![name] = value]
  /\ fcall' = [NoFilterCall EXCEPT !.op = "setattr", !.arg = name]
  /\ UNCHANGED << mvars, ucall >>

\* f.apply_filter(x), r the outcome with the coefficients b and a it used
FilterApplied(x, r) ==
  /\ fcall' = [NoFilterCall EXCEPT !.op = "apply_filter", !.exc = r.exc, !.x = x,
                                   !.y = r.y, !.b = r.b, !.a = r.a,
                                   !.cls = filt.cls]
  /\ UNCHANGED filt
  /\ UNCHANGED << mvars, ucall >>

ApplyFilter(x) ==
  /\ filt.exists
  /\ IF filt.cls = "meter"
     THEN FilterApplied(x, [y |-> apply_filter(filt, x), exc |-> NoExc, b |-> filt.b,
                            a |-> filt.a])
     ELSE FilterApplied(x, iirfilter_apply_filter(filt, x))

FilterNext ==
  \/ \E cls \in FilterClassesOfPackage, G \in FilterGains, Q \in FilterQs,
        fc \in FilterFcs, rate \in FilterRates, filter_type \in FilterShapes :
          ConstructFilter(cls, G, Q, fc, rate, filter_type)
  \/ \E nv \in Assignable : SetParameter(nv[1], nv[2])
  \/ \E x \in FilterData : ApplyFilter(x)

FilterSpec == Init /\ [][FilterNext]_vars

\* ------------------------------------------------------------------------
\* util functions
\* ------------------------------------------------------------------------

\* pyloudnorm.util.validate_input_data(data, fs), r what the call returned or
\* raised
InputValidated(data, r) ==
  /\ ucall' = [exc |-> r.exc, data |-> data, out |-> r.out, op |-> "validate_input_data"]
  /\ UNCHANGED << mvars, fvars >>

CallValidateInputData(data) == InputValidated(data, validate_input_data(data))

UtilNext == \E d \in UtilInputs : CallValidateInputData(d)

UtilSpec == Init /\ [][UtilNext]_vars

\* ------------------------------------------------------------------------
\* Properties
\* ------------------------------------------------------------------------

\* The input contract of integrated_loudness on a Meter m: floating-point
\* samples, at most 5 channels, at least one block of samples.
MeetsContract(data, m) ==
  /\ data.dtype \in {"float16", "float32", "float64"}
  /\ NumChannels(data) <= 5
  /\ 1000 * NumSamples(data) >= m.block_size * m.rate

\* np.max(np.abs(output))
MaxAbs(output) == FMaxOf({FAbs(v) : v \in Samples(output)})

\* Stored block loudness sequences that take loudness_range down its return
\* paths: a range over three blocks, every block under the absolute gate, and
\* a single block.
BlockLoudnessSamples ==
  { << Num(-23000), Num(-30000), Num(-20000) >>,
    << Num(-80000), NegInf >>,
    << Num(-23000) >> }

\* The exit of loudness_range from the current Meter with stl as the stored
\* block loudness values and inner as the outcome of integrated_loudness.
ExitWith(stl, inner) ==
  loudness_range_exit(SaveSettings(meter, overlap), Override(meter), LraOverlap, stl,
                      inner, LraOfBlocks(stl))

\* C1: loudness_range leaves block_size and overlap equal to their values
\* before the call on every exit: after every call the settings are the ones
\* saved on entry, and from every Meter each exit (a return with a range, a
\* NaN return, an exception of integrated_loudness) hands back the Meter and
\* the overlap unchanged.
C1_SettingsRestored ==
  /\ last.op = "loudness_range" => SaveSettings(meter, overlap) = last.before
  /\ meter.exists =>
       \A stl \in BlockLoudnessSamples, e \in {NoExc, "InvalidAudio"} :
         ExitWith(stl, [exc |-> e]).after = [meter |-> meter, overlap |-> overlap]

\* A loudness_range call has ended with the exception integrated_loudness
\* raised while it ran under the temporary settings, which differ from the
\* saved ones; the sampled exits take the normal and the NaN return.
C1_Witness ==
  /\ last.op = "loudness_range"
  /\ last.path = "measure_raised"
  /\ last.exc # NoExc
  /\ last.during # last.before
  /\ \E stl \in BlockLoudnessSamples : ExitWith(stl, [exc |-> NoExc]).path = "normal"
  /\ \E stl \in BlockLoudnessSamples : ExitWith(stl, [exc |-> NoExc]).path = "nan_absolute"

\* The buffers whose integrated loudness is compared across loudness_range
\* calls.
ProbeInputs ==
  { Array1("float64", Tone(MaxLen, 500)),
    Array2("float64", << Tone(MaxLen, 500), Tone(MaxLen, 0) >>) }

\* C2: a loudness_range call on another buffer changes no later
\* integrated_loudness result: for every probe buffer d, what
\* integrated_loudness(d) returns or raises on the Meter after the call is
\* what it returned or raised on the Meter before it.
C2_MeasurementReproduced ==
  [][ last'.op = "loudness_range" =>
        \A d \in ProbeInputs :
          d # last'.data => integrated_loudness(meter', d) = integrated_loudness(meter, d) ]_vars

\* loudness_range has just run, under a block size other than the Meter's, on
\* a buffer other than a probe buffer whose integrated loudness on this Meter
\* is a finite number.
C2_Witness ==
  /\ last.op = "loudness_range"
  /\ last.during.block_size # meter.block_size
  /\ \E d \in ProbeInputs :
       /\ d # last.data
       /\ integrated_loudness(meter, d).exc = NoExc
       /\ IsNum(integrated_loudness(meter, d).ret)

\* C3: integrated_loudness raises InvalidAudio exactly when the buffer is not
\* floating-point, has more than 5 channels or is shorter than one block, and
\* it raises it before any filter stage has run.
C3_InvalidAudio ==
  last.op = "integrated_loudness" =>
    /\ last.exc = "InvalidAudio" <=> ~MeetsContract(last.data, meter)
    /\ last.exc = "InvalidAudio" => last.stages = 0

\* A floating-point mono buffer one sample short of a block was refused by a
\* Meter that has filter stages, none of which ran.
C3_Witness ==
  /\ last.op = "integrated_loudness"
  /\ last.exc = "InvalidAudio"
  /\ last.data.dtype = "float64"
  /\ NumChannels(last.data) = 1
  /\ 1000 * (NumSamples(last.data) + 1) >= meter.block_size * meter.rate
  /\ Len(meter.filters) > 0
  /\ last.stages = 0

\* The filter classes the specification enumerates.
EnumeratedClasses == {"K-weighting", "Fenton/Lee 1", "Dash et al.", "DeMan"}

\* C4: a filter_class outside the enumerated ones is rejected at
\* construction, so no Meter has such a filter class or an empty filter bank.
C4_UnknownClassRejected ==
  /\ (last.op = "Meter" /\ last.arg \notin EnumeratedClasses) => last.exc # NoExc
  /\ meter.exists => (meter.filter_class \in EnumeratedClasses /\ meter.filters # << >>)

\* A stage with the given shape and parameters at the given rate.
StageIs(f, filter_type, G, Q, fc, rate) ==
  /\ f.stage.filter_type = filter_type
  /\ f.stage.G = G
  /\ f.stage.Q = Q
  /\ f.stage.fc = fc
  /\ f.stage.rate = rate

\* C5: a "K-weighting" Meter has exactly two stages, in this order: the
\* high_shelf (G = 4.0, Q = 1/sqrt(2), fc = 1500) and then the high_pass
\* (G = 0, Q = 0.5, fc = 38), both at the Meter's rate.
C5_KWeightingStages ==
  (last.op = "Meter" /\ last.exc = NoExc /\ last.arg = DefaultFilterClass) =>
    /\ Len(meter.filters) = 2
    /\ StageIs(meter.filters[1], "high_shelf", 40, InvSqrt2, 1500, meter.rate)
    /\ StageIs(meter.filters[2], "high_pass", 0, 5000, 38, meter.rate)

\* A "K-weighting" Meter has just been constructed.
C5_Witness ==
  /\ last.op = "Meter"
  /\ last.exc = NoExc
  /\ last.arg = DefaultFilterClass
  /\ meter.exists
  /\ meter.filter_class = DefaultFilterClass

\* The stages the specification lists for the other filter classes (fc in Hz,
\* to the nearest integer).
ListedStages(filter_class, filters) ==
  CASE filter_class = "Fenton/Lee 1" ->
         /\ Len(filters) = 3
         /\ filters[1].stage.filter_type = "high_shelf"
         /\ filters[2].stage.filter_type = "high_pass" /\ filters[2].stage.fc = 130
         /\ filters[3].stage.filter_type = "peaking" /\ filters[3].stage.fc = 500
    [] filter_class = "Dash et al." ->
         /\ Len(filters) = 2
         /\ filters[1].stage.filter_type = "high_pass"
         /\ filters[1].stage.fc = 149 /\ filters[1].stage.Q = 3750
         /\ filters[2].stage.filter_type \in {"peaking", "notch"}
         /\ filters[2].stage.fc = 1000
    [] filter_class = "DeMan" ->
         /\ Len(filters) = 2
         /\ filters[1].stage.filter_type = "high_shelf" /\ filters[1].stage.fc = 1682
         /\ filters[2].stage.filter_type = "high_pass" /\ filters[2].stage.fc = 38

\* C6: constructing a Meter with "Fenton/Lee 1", "Dash et al." or "DeMan"
\* succeeds and yields the listed stages in declaration order.
C6_OtherClassesConstruct ==
  (last.op = "Meter" /\ last.arg \in {"Fenton/Lee 1", "Dash et al.", "DeMan"}) =>
    /\ last.exc = NoExc
    /\ meter.filter_class = last.arg
    /\ ListedStages(last.arg, meter.filters)

\* C7: integrated_loudness never modifies the caller's buffer: after the call
\* the caller's array holds, sample for sample, what it held before.
C7_CallerBufferUntouched ==
  last.op = "integrated_loudness" => last.caller = last.data

\* integrated_loudness has returned after running filter stages that change
\* the samples they are given.
C7_Witness ==
  /\ last.op = "integrated_loudness"
  /\ last.exc = NoExc
  /\ last.stages > 0
  /\ ApplyStages(meter.filters, Len(meter.filters), last.data.ch[1]) # last.data.ch[1]
  /\ last.caller = last.data

\* A buffer that is silent, or has a channel of zero energy.
HasSilentChannel(data) ==
  \E c \in DOMAIN data.ch : \A t \in DOMAIN data.ch[c] : data.ch[c][t] = 0

C9_PeakTwoArguments ==
  (last.op = "peak" /\ last.nargs = 2) =>
    /\ last.exc = NoExc
    /\ (\E v \in Samples(last.data) : v # 0) => MaxAbs(last.out) = Num(Pow10Amp(last.target))
    /\ (last.data = Array0(5000) /\ last.target = 0) => last.out = Array0(Num(Scale))

\* The gain peak and loudness apply to the data of the last call.
GainOf(call) ==
  IF call.op = "peak"
  THEN PeakGain(call.target, FMaxOf({Num(Abs(v)) : v \in Samples(call.data)}))
  ELSE FPow10Amp(FSubFrom(call.target, measure_gated_loudness(call.data, call.fs).ret))

\* C10: peak and loudness warn of clipping exactly when max(|output|) >= 1.0,
\* and with or without the warning they return the scaled output.
C10_ClippingWarning ==
  (last.op \in {"peak", "loudness"} /\ last.exc = NoExc) =>
    /\ last.warned <=> FGe(MaxAbs(last.out), Num(Scale))
    /\ last.out = ScaleArray(GainOf(last), last.data)

\* peak has returned an output whose largest absolute sample is exactly 1.0,
\* with the warning.
C10_Witness ==
  /\ last.op = "peak"
  /\ last.exc = NoExc
  /\ MaxAbs(last.out) = Num(Scale)
  /\ last.warned
  /\ last.out = ScaleArray(GainOf(last), last.data)

\* C11: normalize.loudness has a variant that takes a precomputed input
\* loudness L and measures nothing: a call loudness(data, L, target) whose
\* second argument is the measured loudness of data returns data scaled by
\* 10^((target - L)/20).
C11_PrecomputedLoudnessUsed ==
  (/\ last.op = "loudness"
   /\ last.nargs = 3
   /\ Num(last.fs) = MeasuredLoudness(last.data)) =>
    /\ last.exc = NoExc
    /\ last.out = ScaleArray(FPow10Amp(Num(last.target - last.fs)), last.data)

\* The output of a normalization as a buffer to measure, when every sample of
\* it is a finite number.
AllFinite(output) == \A v \in Samples(output) : IsNum(v)
AsBuffer(output) ==
  [ch |-> [c \in DOMAIN output.ch |-> [t \in DOMAIN output.ch[c] |-> output.ch[c][t].v]],
   dtype |-> "float64", ndim |-> output.ndim]

\* C12: round trip: after loudness(d, L, t) with L the measured loudness of d,
\* the measured loudness of the output is t (to the resolution of the
\* tabulated logarithm, 0.3 dB).
C12_RoundTrip ==
  (/\ last.op = "loudness"
   /\ last.nargs = 3
   /\ Num(last.fs) = MeasuredLoudness(last.data)) =>
    /\ last.exc = NoExc
    /\ AllFinite(last.out)
    /\ IsNum(MeasuredLoudness(AsBuffer(last.out)))
    /\ Abs(MeasuredLoudness(AsBuffer(last.out)).v - last.target) <= 3 * 100

\* The measurement loudness_range makes of the last call's data: the padded
\* buffer, under the temporary block size.
RangeMeasurement ==
  integrated_loudness(Override(meter), PadSilence(last.data, meter.rate))

\* C13: loudness_range returns NaN, without raising, whenever the padded
\* buffer is measured and no block loudness value is >= -70 LUFS.
C13_RangeOfSilenceIsNaN ==
  (/\ last.op = "loudness_range"
   /\ RangeMeasurement.exc = NoExc
   /\ RangeMeasurement.J_a = {}) =>
    /\ last.exc = NoExc
    /\ last.ret = NaN

\* The series cascade of a filter bank of up to three stages on one channel,
\* written out: each stage reads the output of the stage declared before it.
SeriesCascade(filters, x) ==
  CASE Len(filters) = 0 -> x
    [] Len(filters) = 1 -> apply_filter(filters[1].stage, x)
    [] Len(filters) = 2 -> apply_filter(filters[2].stage, apply_filter(filters[1].stage, x))
    [] Len(filters) = 3 ->
         apply_filter(filters[3].stage,
                      apply_filter(filters[2].stage, apply_filter(filters[1].stage, x)))

\* C15: integrated_loudness applies the filter stages to every channel as a
\* series cascade in declaration order: the samples the block energies are
\* computed from are, channel by channel, the output of the last stage fed
\* with the output of the stage before it, down to the first stage fed with
\* the input.
C15_SeriesCascade ==
  (last.op = "integrated_loudness" /\ last.exc = NoExc) =>
    /\ Len(last.filtered) = NumChannels(last.data)
    /\ \A c \in DOMAIN last.data.ch :
         last.filtered[c] = SeriesCascade(meter.filters, last.data.ch[c])

\* integrated_loudness has returned on a Meter of three stages, for a buffer
\* on which the cascade differs from the cascade in the reverse order and
\* from what the last stage makes of the original signal.
C15_Witness ==
  /\ last.op = "integrated_loudness"
  /\ last.exc = NoExc
  /\ Len(meter.filters) = 3
  /\ last.filtered[1] = SeriesCascade(meter.filters, last.data.ch[1])
  /\ last.filtered[1] # apply_filter(meter.filters[3].stage, last.data.ch[1])
  /\ last.filtered[1] #
       SeriesCascade(<< meter.filters[3], meter.filters[2], meter.filters[1] >>,
                     last.data.ch[1])

\* round((T - T_g)/(T_g*step)) + 1 for T = numSamples/rate, T_g in ms and
\* step = 1 - ov, ov the overlap setting in 1/1000.
BlocksByFormula(numSamples, rate, T_g, ov) ==
  RoundHalfEven(1000 * (1000 * numSamples - T_g * rate), T_g * rate * (1000 - ov)) + 1

\* C16: the number of gating blocks integrated_loudness computes is
\* round((T - T_g)/(T_g*step)) + 1 with step = 1 - the Meter's overlap setting
\* at the time of the measurement, in a call of integrated_loudness and in
\* the measurement loudness_range makes under its temporary overlap; a buffer
\* of exactly one block length gives 1 block.
C16_NumBlocksFormula ==
  /\ (last.op = "integrated_loudness" /\ last.exc = NoExc) =>
       /\ last.numBlocks = BlocksByFormula(NumSamples(last.data), meter.rate,
                                           meter.block_size, overlap)
       /\ 1000 * NumSamples(last.data) = meter.block_size * meter.rate => last.numBlocks = 1
  /\ (last.op = "loudness_range" /\ RangeMeasurement.exc = NoExc) =>
       RangeMeasurement.numBlocks =
         BlocksByFormula(NumSamples(PadSilence(last.data, meter.rate)), meter.rate,
                         last.during.block_size, last.during.overlap)

\* The number of samples in the slice input_data[l:u] of block j.
SliceLength(x, j, rate, T_g) ==
  Min(BlockUpper(j, rate, T_g), Len(x)) - BlockLower(j, rate, T_g)

\* C17: for a block length T_g*rate that is a whole number n of samples, the
\* energy of every block j of every channel is the sum of the squares of the n
\* filtered samples [l, l + n), l = floor(T_g*j*step*rate), over T_g*rate:
\* every block sums n samples.
C17_BlockEnergy ==
  (/\ last.op = "integrated_loudness"
   /\ last.exc = NoExc
   /\ (meter.block_size * meter.rate) % 1000 = 0) =>
    \A i \in DOMAIN last.filtered, j \in 0..(last.numBlocks - 1) :
      LET n == (meter.block_size * meter.rate) \div 1000
          l == (meter.block_size * j * meter.rate) \div 4000
      IN  /\ BlockLower(j, meter.rate, meter.block_size) = l
          /\ BlockUpper(j, meter.rate, meter.block_size) = l + n
          /\ SliceLength(last.filtered[i], j, meter.rate, meter.block_size) = n
          /\ BlockEnergy(last.filtered[i], j, meter.rate, meter.block_size)
               = (SumSq(last.filtered[i], l + 1, l + n) * 10)
                   \div ((meter.block_size * meter.rate) \div 100)

\* C18: for every buffer of at least one block length, the upper bound u of
\* every gating block j < numBlocks is at most numSamples.
C18_BlocksInsideBuffer ==
  (last.op = "integrated_loudness" /\ last.exc = NoExc) =>
    \A j \in 0..(last.numBlocks - 1) :
      BlockUpper(j, meter.rate, meter.block_size) <= NumSamples(last.data)

\* x >= c and x > y over floats, as IEEE compares them.
AtLeast(x, c) == x.k = "pinf" \/ (x.k = "num" /\ x.v >= c)
Above(x, y) ==
  \/ x.k = "num" /\ y.k = "num" /\ x.v > y.v
  \/ x.k = "pinf" /\ y.k \in {"num", "ninf"}
  \/ x.k = "num" /\ y.k = "ninf"

\* Block loudness sequences with a block at exactly -70.0 and blocks around
\* it, and relative thresholds under, at and over -70.0.
GateSamples ==
  { << Num(-70000), Num(-60000) >>,
    << Num(-70000), Num(-69999), Num(-70001) >>,
    << Num(-70000) >> }
ThresholdSamples == {Num(-80000), Num(-70000), Num(-65000), NaN}

\* C19: the first pass keeps exactly the blocks with l_j >= -70.0, the second
\* exactly the blocks with l_j > Gamma_r and l_j > -70.0, so the second-pass
\* set is a subset of the first-pass set; a block at exactly -70.0 is in the
\* first-pass set and never in the second-pass set.
C19_AsymmetricGating ==
  /\ (last.op = "integrated_loudness" /\ last.exc = NoExc) =>
       /\ last.J_a = {j \in DOMAIN last.l : AtLeast(last.l[j], -70000)}
       /\ last.J_g = {j \in DOMAIN last.l : /\ Above(last.l[j], last.Gamma_r)
                                            /\ Above(last.l[j], Num(-70000))}
       /\ last.J_g \subseteq last.J_a
  /\ \A l \in GateSamples, g \in ThresholdSamples :
       /\ AbsoluteGate(l) = {j \in DOMAIN l : l[j].v >= -70000}
       /\ RelativeGate(l, g) = {j \in DOMAIN l : l[j].v > -70000 /\ Above(l[j], g)}
       /\ 1 \in AbsoluteGate(l)
       /\ 1 \notin RelativeGate(l, g)

\* integrated_loudness has returned with blocks that pass the first gate and
\* not the second, and blocks that pass both.
C19_Witness ==
  /\ last.op = "integrated_loudness"
  /\ last.exc = NoExc
  /\ last.J_g # {}
  /\ last.J_g # last.J_a
  /\ last.J_g \subseteq last.J_a
  /\ \E j \in last.J_a : ~Above(last.l[j], last.Gamma_r)

\* C20, as stated: when no block passes the absolute gate, integrated_loudness
\* returns NaN.
C20_EmptyGateReturnsNaN ==
  (/\ last.op = "integrated_loudness"
   /\ last.exc = NoExc
   /\ last.J_a = {}) => last.ret = NaN

\* C20, amended: when no block passes the absolute gate, the absolute-gated
\* average and with it Gamma_r are NaN, no block passes the second pass, the NaN
\* gated average is replaced by 0, and integrated_loudness returns -infinity.
C20_EmptyGateReturnsNegInf ==
  (/\ last.op = "integrated_loudness"
   /\ last.exc = NoExc
   /\ last.J_a = {}) =>
     /\ last.Gamma_r = NaN
     /\ last.J_g = {}
     /\ last.ret = NegInf

\* integrated_loudness has returned for a buffer with blocks of finite
\* loudness, all of them below -70.0.
C20_Witness ==
  /\ last.op = "integrated_loudness"
  /\ last.exc = NoExc
  /\ last.numBlocks > 0
  /\ \A j \in DOMAIN last.l : IsNum(last.l[j]) /\ last.l[j].v < -70000
  /\ last.J_a = {}
  /\ last.Gamma_r = NaN
  /\ last.ret = NegInf

\* C21: after relative gating no per-channel gated average is NaN, so the
\* final logarithm never takes a NaN: every average is a number, the call
\* never returns NaN, and when the relative-gated block set is empty every
\* channel contributes 0 and integrated_loudness returns -infinity.
C21_NaNAveragesZeroed ==
  (last.op = "integrated_loudness" /\ last.exc = NoExc) =>
     /\ \A i \in DOMAIN last.z_avg_gated : IsNum(last.z_avg_gated[i])
     /\ last.ret # NaN
     /\ last.J_g = {} =>
          /\ \A i \in DOMAIN last.z_avg_gated : last.z_avg_gated[i] = Num(0)
          /\ last.ret = NegInf

\* integrated_loudness has returned -infinity for a two-channel buffer none of
\* whose blocks passed the relative gate, both channels contributing 0.
C21_Witness ==
  /\ last.op = "integrated_loudness"
  /\ last.exc = NoExc
  /\ NumChannels(last.data) = 2
  /\ last.numBlocks > 0
  /\ last.J_g = {}
  /\ last.z_avg_gated = << Num(0), Num(0) >>
  /\ last.ret = NegInf

\* C22: after every integrated_loudness call that returns, the Meter's
\* blockwise_loudness is the per-block loudness sequence of that call, one
\* entry per gating block.
C22_BlockwiseLoudnessStored ==
  (last.op = "integrated_loudness" /\ last.exc = NoExc) =>
     /\ blockwise_loudness = last.l
     /\ Len(blockwise_loudness) = last.numBlocks

\* The samples integrated_loudness measures when the stages it applies are
\* those of filter_class at the Meter's rate.
FilteredBy(filter_class, rate, data) ==
  Tuple([c \in DOMAIN data.ch |->
           SeriesCascade(Meter__init__(rate, filter_class, DefaultBlockSize).obj.filters,
                         data.ch[c])])

\* C23: after any sequence of filter_class assignments, the stages
\* integrated_loudness applies are those of the Meter's current filter_class.
C23_CurrentClassApplied ==
  (/\ last.op = "integrated_loudness"
   /\ last.exc = NoExc
   /\ meter.filter_class \in {"K-weighting", "Fenton/Lee 1"}) =>
     last.filtered = FilteredBy(meter.filter_class, meter.rate, last.data)

\* C24: for the IIRfilter the package exports (meter.py's), after any
\* sequence of assignments to G, Q, fc, rate or filter_type, the b and a that
\* apply_filter uses are the coefficients of the filter's current parameters.
C24_CoefficientsCurrent ==
  (fcall.op = "apply_filter" /\ fcall.cls = "meter") =>
     /\ generate_filter_coefficients(filt.G, filt.Q, filt.fc, filt.rate,
                                     filt.filter_type).exc = NoExc
     /\ fcall.b = generate_filter_coefficients(filt.G, filt.Q, filt.fc, filt.rate,
                                               filt.filter_type).b
     /\ fcall.a = generate_filter_coefficients(filt.G, filt.Q, filt.fc, filt.rate,
                                               filt.filter_type).a

\* The filter shapes each IIRfilter class has a branch for.
SupportedShapes(cls) ==
  IF cls = "meter" THEN {"high_shelf", "peaking", "high_pass"}
  ELSE {"high_shelf", "low_shelf", "high_pass", "low_pass", "peaking", "notch"}

\* C25: in both IIRfilter classes a filter shape outside the supported set
\* raises at construction, so no filter object has such a shape when it is
\* constructed, and apply_filter never raises the invalid-shape error.
C25_InvalidShapeAtConstruction ==
  /\ (fcall.op = "IIRfilter" /\ fcall.arg \notin SupportedShapes(fcall.cls)) =>
       fcall.exc = "ValueError"
  /\ (fcall.op = "IIRfilter" /\ fcall.exc = NoExc) =>
       filt.filter_type \in SupportedShapes(filt.cls)
  /\ fcall.op = "apply_filter" => fcall.exc # "ValueError"

\* C26: validate_input_data conforms integer input to [-1, 1]: for every
\* array of dtype int8, int16, int32 or int64 every output sample v has
\* -1 <= v <= 1, the most negative value of the type included.
C26_IntegerInputInRange ==
  (/\ ucall.op = "validate_input_data"
   /\ ucall.data.dtype \in {"int8", "int16", "int32", "int64"}) =>
     /\ ucall.exc = NoExc
     /\ \A v \in Samples(ucall.out) : LeqMag(v.num, v.den)

====
